---- MODULE Spec2Model ----
(***************************************************************************)
(* Memory management core of the nepheliadrs kernel: page-table entries,   *)
(* the recursive four-level page table (translate / map_to / map /         *)
(* identity_map / unmap) and the area frame allocator that feeds it.       *)
(*                                                                         *)
(* Representation.                                                         *)
(*  - A 64-bit entry word is the set of its set bit positions (0..63);     *)
(*    bitwise OR is union, AND is intersection.                            *)
(*  - A virtual address is the digit string <<hi, p4, p3, p2, p1, off>>    *)
(*    (16 + 9 + 9 + 9 + 9 + 12 bits); a Page number is the address without *)
(*    its last digit, so address / PAGE_SIZE drops the digit and the       *)
(*    shifts by 27, 18, 9, 0 masked with 0o777 select a digit.             *)
(*  - Physical memory is a function from frame numbers to tables; a table  *)
(*    is reached through the recursive slot of the top-level table, so a   *)
(*    table handle is the frame the hardware walk of its address ends in.  *)
(*  - Tables have ENTRY_COUNT entries; the model follows the slots in      *)
(*    Slots.                                                               *)
(***************************************************************************)
EXTENDS Integers, FiniteSets, Sequences, TLC

VARIABLES mem, alloc, status, last, ops, entry, boot, cfg, handed, dry, tlb

vars ==
    <<mem, alloc, status, last, ops, entry, boot, cfg, handed, dry, tlb>>

(***************************************************************************)
(* Bounds of the model.                                                    *)
(***************************************************************************)
\* mutating page-table operations per run
MaxOps == 2
\* frames of the second usable memory area of the paging specification
HighAreaFrames == 1
\* largest frame count of a memory area drawn for the allocator specification
MaxAreaFrames == 3

(***************************************************************************)
(* Program constants.                                                      *)
(***************************************************************************)
PAGE_SIZE == 4096
ENTRY_COUNT == 512

PRESENT == 0
WRITEABLE == 1
USER_ACCESSIBLE == 2
WRITE_THROUGH == 3
NO_CACHE == 4
ACCESSED == 5
DIRTY == 6
HUGE_PAGE == 7
GLOBAL == 8
NO_EXECUTE == 63

\* every bit bitflags! declares: from_bits_truncate keeps exactly these
EntryFlagsAll ==
    {PRESENT, WRITEABLE, USER_ACCESSIBLE, WRITE_THROUGH, NO_CACHE, ACCESSED,
     DIRTY, HUGE_PAGE, GLOBAL, NO_EXECUTE}

\* 0x000fffff_fffff000
AddressMask == 12..51

WordBits == 0..63

(***************************************************************************)
(* Numbers as bit sets.                                                    *)
(***************************************************************************)
\* the bits of a natural number below 2^31
ToBits(n) == {i \in 0..30 : (n \div (2 ^ i)) % 2 = 1}

RECURSIVE FromBits(_)
FromBits(S) ==
    IF S = {} THEN 0
    ELSE LET i == CHOOSE x \in S : TRUE IN (2 ^ i) + FromBits(S \ {i})

None == [some |-> FALSE, v |-> 0]
Some(x) == [some |-> TRUE, v |-> x]

(***************************************************************************)
(* Frame (memory/mod.rs).                                                  *)
(***************************************************************************)
Frame_containing_address(address) == address \div PAGE_SIZE

Frame_start_address(number) == number * PAGE_SIZE

(***************************************************************************)
(* Entry (memory/paging/entry.rs): a 64-bit word as its set of bits.       *)
(***************************************************************************)
Entry_is_unused(e) == e = {}

Entry_set_unused(e) == {}

\* EntryFlags::from_bits_truncate(self.0)
Entry_flags(e) == e \cap EntryFlagsAll

Entry_pointed_frame(e) ==
    IF PRESENT \in Entry_flags(e)
    THEN Some(Frame_containing_address(FromBits(e \cap AddressMask)))
    ELSE None

\* assert!(frame.start_address() & !0x000fffff_fffff000 == 0)
Entry_set_assert(frame) ==
    ToBits(Frame_start_address(frame)) \cap (WordBits \ AddressMask) = {}

\* set storing the frame number where the address belongs
Entry_set_NumberForAddress(e, frame, flags) == ToBits(frame) \cup flags

\* self.0 = (frame.start_address() as u64) | flags.bits()
Entry_set(e, frame, flags) == ToBits(Frame_start_address(frame)) \cup flags

(***************************************************************************)
(* Page (memory/paging/mod.rs).  An address is <<hi, p4, p3, p2, p1, off>>,*)
(* a page number is <<hi, p4, p3, p2, p1>>.                                *)
(***************************************************************************)
\* the check with the upper bound taken as 0xffff_0000_0000_0000
Page_canonical_UpperFromZero(address) ==
    \/ address[1] = 0 /\ address[2] < 256
    \/ address[1] = 65535

\* address < 0x0000_8000_0000_0000 || address >= 0xffff_8000_0000_0000
Page_canonical(address) ==
    \/ address[1] = 0 /\ address[2] < 256
    \/ address[1] = 65535 /\ address[2] >= 256

\* address / PAGE_SIZE
Page_containing_address(address) == SubSeq(address, 1, 5)

\* self.number * PAGE_SIZE
Page_start_address(page) == page \o <<0>>

\* address % PAGE_SIZE
PageOffset(address) == address[6]

p4_index(page) == page[2]

p3_index(page) == page[3]

p2_index(page) == page[4]

p1_index(page) == page[5]

(***************************************************************************)
(* Table hierarchy.  The slots of a table the model follows, an empty      *)
(* table, and the lookup of the next level down.                           *)
(***************************************************************************)
Slots == {0, 1, ENTRY_COUNT - 1}

RecursiveSlot == ENTRY_COUNT - 1

ZeroTable == [s \in Slots |-> {}]

\* the child table behind entry idx of table T: present and not a huge page
Table_next_table(m, T, idx) ==
    LET e == m[T][idx] IN
    IF PRESENT \in Entry_flags(e) /\ HUGE_PAGE \notin Entry_flags(e)
    THEN Entry_pointed_frame(e)
    ELSE None

(***************************************************************************)
(* Area frame allocator.  cfg holds the construction inputs (addresses),   *)
(* alloc the cursor and the index of the current area (0: none).           *)
(***************************************************************************)
SetMin(S) == CHOOSE x \in S : \A y \in S : x <= y

SetMax(S) == CHOOSE x \in S : \A y \in S : x >= y

\* rust_main with kernel_end taken from the section addresses alone
rust_main_kernel_end_NoSize(b) == SetMax({sec.addr : sec \in b.sections})

\* lib.rs 50-51: the highest end of a kernel section
rust_main_kernel_end(b) ==
    SetMax({sec.addr + sec.size : sec \in b.sections})

\* lib.rs 48-61: the construction inputs rust_main passes to the allocator
rust_main_cfg(b) ==
    [kernel_start |-> SetMin({sec.addr : sec \in b.sections}),
     kernel_end |-> rust_main_kernel_end(b),
     multiboot_start |-> b.info_address,
     multiboot_end |-> b.info_address + b.total_size,
     areas |-> b.areas]

AreaLastFrame(area) ==
    Frame_containing_address(area.base_addr + area.length - 1)

OverlapsWindow(f, start, end) ==
    Frame_start_address(f) < end /\ Frame_start_address(f + 1) > start

\* the skip landing one frame after the frame that holds the window's end
PastWindow_FrameAfterEnd(end) == Frame_containing_address(end) + 1

PastWindow(end) == Frame_containing_address(end + PAGE_SIZE - 1)

choose_next_area(c, a) ==
    LET cand == {i \in 1..Len(c.areas) :
                    AreaLastFrame(c.areas[i]) >= a.next_free_frame}
    IN  IF cand = {} THEN [a EXCEPT !.current_area = 0]
        ELSE LET i == CHOOSE x \in cand :
                        \A y \in cand :
                            c.areas[x].base_addr <= c.areas[y].base_addr
                 start == Frame_containing_address(c.areas[i].base_addr)
             IN  [next_free_frame |->
                      IF a.next_free_frame < start THEN start
                      ELSE a.next_free_frame,
                  current_area |-> i]

RECURSIVE allocate_frame(_, _)
allocate_frame(c, a) ==
    IF a.current_area = 0 THEN [frame |-> None, alloc |-> a]
    ELSE LET f == a.next_free_frame IN
         IF f > AreaLastFrame(c.areas[a.current_area])
         THEN allocate_frame(c, choose_next_area(c, a))
         ELSE IF OverlapsWindow(f, c.kernel_start, c.kernel_end)
         THEN allocate_frame(c,
                  [a EXCEPT !.next_free_frame = PastWindow(c.kernel_end)])
         ELSE IF OverlapsWindow(f, c.multiboot_start, c.multiboot_end)
         THEN allocate_frame(c,
                  [a EXCEPT !.next_free_frame = PastWindow(c.multiboot_end)])
         ELSE [frame |-> Some(f),
               alloc |-> [a EXCEPT !.next_free_frame = f + 1]]

\* a deallocate_frame that rewinds the cursor to the frame given back
deallocate_frame_Rewind(c, a, frame) ==
    choose_next_area(c, [next_free_frame |-> frame, current_area |-> 0])

\* accepted, nothing is recycled
deallocate_frame(c, a, frame) == a

AreaFrameAllocator_new(c) ==
    choose_next_area(c, [next_free_frame |-> 0, current_area |-> 0])

(***************************************************************************)
(* Physical layout of the paging specification.  The boot tables lie in    *)
(* the kernel image: P4 with its recursive slot, one P3, one P2 whose      *)
(* entries identity-map the first GiB with 2 MiB pages (test_paging).      *)
(***************************************************************************)
Boot == [p4 |-> 1, p3 |-> 2, p2 |-> 3]

P4 == Boot.p4

PagingBoot ==
    [sections |-> {[addr |-> 0, size |-> 4 * PAGE_SIZE]},
     info_address |-> 4 * PAGE_SIZE,
     total_size |-> PAGE_SIZE,
     areas |-> <<[base_addr |-> 0, length |-> 7 * PAGE_SIZE],
                 [base_addr |-> ENTRY_COUNT * PAGE_SIZE,
                  length |-> HighAreaFrames * PAGE_SIZE]>>]

\* frames handed to map_to and identity_map by the caller
DataFrames == {9, ENTRY_COUNT * ENTRY_COUNT}

FrameUniverse ==
    (0..9) \cup (ENTRY_COUNT..(ENTRY_COUNT + HighAreaFrames))
           \cup {ENTRY_COUNT * ENTRY_COUNT}

\* what a frame nobody initialised may hold
StaleTables ==
    {ZeroTable,
     [s \in Slots |-> IF s = 0 THEN Entry_set({}, 9, {PRESENT}) ELSE {}]}

BootMem(stale) ==
    [f \in FrameUniverse |->
        IF f = Boot.p4
        THEN [s \in Slots |->
                 IF s = 0 THEN Entry_set({}, Boot.p3, {PRESENT, WRITEABLE})
                 ELSE IF s = RecursiveSlot
                 THEN Entry_set({}, Boot.p4, {PRESENT, WRITEABLE})
                 ELSE {}]
        ELSE IF f = Boot.p3
        THEN [s \in Slots |->
                 IF s = 0 THEN Entry_set({}, Boot.p2, {PRESENT, WRITEABLE})
                 ELSE {}]
        ELSE IF f = Boot.p2
        THEN [s \in Slots |->
                 Entry_set({}, s * ENTRY_COUNT,
                           {PRESENT, WRITEABLE, HUGE_PAGE})]
        ELSE stale]

\* the top-level table is reachable at its fixed address only through its
\* own recursive slot
RecursiveMapped(m) ==
    LET e == m[P4][RecursiveSlot] IN
    /\ PRESENT \in Entry_flags(e)
    /\ HUGE_PAGE \notin Entry_flags(e)
    /\ Entry_pointed_frame(e) = Some(P4)

(***************************************************************************)
(* RecusivePageTable::translate_page and translate.                        *)
(***************************************************************************)
Res(kind, v) == [kind |-> kind, v |-> v]

\* the 1 GiB computation without the level-2 index
Huge1GiBFrame_NoP2(start, page) == start + p1_index(page)

\* lines 104-107: the frame of a page inside a 1 GiB page
Huge1GiBFrame(start, page) ==
    start + p2_index(page) * ENTRY_COUNT + p1_index(page)

\* lines 116-118: the frame of a page inside a 2 MiB page
Huge2MiBFrame(start, page) == start + p1_index(page)

huge_page(m, page, p3) ==
    IF ~p3.some THEN Res("none", 0)
    ELSE
    LET p3_entry == m[p3.v][p3_index(page)]
        start3 == Entry_pointed_frame(p3_entry)
    IN  IF start3.some /\ HUGE_PAGE \in Entry_flags(p3_entry)
        THEN IF start3.v % (ENTRY_COUNT * ENTRY_COUNT) # 0
             THEN Res("panic", 0)
             ELSE Res("some", Huge1GiBFrame(start3.v, page))
        ELSE
        LET p2 == Table_next_table(m, p3.v, p3_index(page)) IN
        IF ~p2.some THEN Res("none", 0)
        ELSE
        LET p2_entry == m[p2.v][p2_index(page)]
            start2 == Entry_pointed_frame(p2_entry)
        IN  IF start2.some
            THEN IF start2.v % ENTRY_COUNT # 0
                 THEN Res("panic", 0)
                 ELSE Res("some", Huge2MiBFrame(start2.v, page))
            ELSE Res("none", 0)

\* the level-1 table of a page, through three next_table lookups
P1Table(m, page) ==
    LET p3 == Table_next_table(m, P4, p4_index(page))
        p2 == IF p3.some THEN Table_next_table(m, p3.v, p3_index(page))
              ELSE None
    IN  IF p2.some THEN Table_next_table(m, p2.v, p2_index(page)) ELSE None

translate_page(m, page) ==
    LET p3 == Table_next_table(m, P4, p4_index(page))
        p1 == P1Table(m, page)
        fr == IF p1.some THEN Entry_pointed_frame(m[p1.v][p1_index(page)])
              ELSE None
    IN  IF fr.some THEN Res("some", fr.v) ELSE huge_page(m, page, p3)

translate(m, virtual_address) ==
    IF ~RecursiveMapped(m) THEN Res("fault", 0)
    ELSE IF ~Page_canonical(virtual_address) THEN Res("panic", 0)
    ELSE LET r == translate_page(m, Page_containing_address(virtual_address))
         IN  IF r.kind = "some"
             THEN Res("some", r.v * PAGE_SIZE + PageOffset(virtual_address))
             ELSE r

(***************************************************************************)
(* Operations that change the tables.  Each yields outcomes                *)
(* [st, why, mem, alloc, tbl]: st is "ok", "panic" (a failed assertion,    *)
(* expect or unwrap: panic_fmt never returns) or "fault" (the top-level    *)
(* table is no longer reachable at its address); why names the check that  *)
(* failed.                                                                 *)
(***************************************************************************)
Out(st, why, m, a, tbl) ==
    [st |-> st, why |-> why, mem |-> m, alloc |-> a, tbl |-> tbl]

\* a fresh frame installed in slot idx of T and left as it was found
CreateTable_NotZeroed(c, m, a, T, idx) ==
    LET r == allocate_frame(c, a) IN
    IF ~r.frame.some THEN Out("panic", "no frames available", m, r.alloc, 0)
    ELSE IF ~Entry_set_assert(r.frame.v)
    THEN Out("panic", "set", m, r.alloc, 0)
    ELSE Out("ok", "",
             [m EXCEPT ![T][idx] =
                 Entry_set(@, r.frame.v, {PRESENT, WRITEABLE})],
             r.alloc, r.frame.v)

\* a fresh frame installed PRESENT | WRITEABLE in slot idx of T, then zeroed
CreateTable(c, m, a, T, idx) ==
    LET r == allocate_frame(c, a) IN
    IF ~r.frame.some THEN Out("panic", "no frames available", m, r.alloc, 0)
    ELSE IF ~Entry_set_assert(r.frame.v)
    THEN Out("panic", "set", m, r.alloc, 0)
    ELSE LET m1 == [m EXCEPT ![T][idx] =
                        Entry_set(@, r.frame.v, {PRESENT, WRITEABLE})]
             m2 == [m1 EXCEPT ![r.frame.v] = ZeroTable]
         IN  Out("ok", "", m2, r.alloc, r.frame.v)

\* For a present huge-page entry the design names no outcome on the
\* creation path: the fatal stop and the replacement are both followed.
Table_next_table_create(c, m, a, T, idx) ==
    LET nt == Table_next_table(m, T, idx)
        e == m[T][idx]
    IN  IF nt.some THEN {Out("ok", "", m, a, nt.v)}
        ELSE IF PRESENT \in Entry_flags(e) /\ HUGE_PAGE \in Entry_flags(e)
        THEN {Out("panic", "huge page", m, a, 0), CreateTable(c, m, a, T, idx)}
        ELSE {CreateTable(c, m, a, T, idx)}

\* map_to storing the caller's flags as they are
MapToInstall_FlagsAsGiven(o, page, frame, flags) ==
    LET slot == o.mem[o.tbl][p1_index(page)] IN
    IF ~Entry_is_unused(slot)
    THEN Out("panic", "in use", o.mem, o.alloc, o.tbl)
    ELSE Out("ok", "",
             [o.mem EXCEPT ![o.tbl][p1_index(page)] =
                 Entry_set(@, frame, flags)],
             o.alloc, o.tbl)

\* map_to without the is_unused assertion
MapToInstall_Overwrite(o, page, frame, flags) ==
    Out("ok", "",
        [o.mem EXCEPT ![o.tbl][p1_index(page)] =
            Entry_set(@, frame, flags \cup {PRESENT})],
        o.alloc, o.tbl)

\* lines 140-141: the slot must be unused, then set(frame, flags | PRESENT)
MapToInstall(o, page, frame, flags) ==
    LET slot == o.mem[o.tbl][p1_index(page)] IN
    IF ~Entry_is_unused(slot)
    THEN Out("panic", "in use", o.mem, o.alloc, o.tbl)
    ELSE IF ~Entry_set_assert(frame)
    THEN Out("panic", "set", o.mem, o.alloc, o.tbl)
    ELSE Out("ok", "",
             [o.mem EXCEPT ![o.tbl][p1_index(page)] =
                 Entry_set(@, frame, flags \cup {PRESENT})],
             o.alloc, o.tbl)

map_to(c, m, a, page, frame, flags) ==
    IF ~RecursiveMapped(m) THEN {Out("fault", "fault", m, a, 0)}
    ELSE
    LET S3 == Table_next_table_create(c, m, a, P4, p4_index(page))
        S2 == UNION {IF o.st = "ok"
                     THEN Table_next_table_create(c, o.mem, o.alloc, o.tbl,
                                                  p3_index(page))
                     ELSE {o} : o \in S3}
        S1 == UNION {IF o.st = "ok"
                     THEN Table_next_table_create(c, o.mem, o.alloc, o.tbl,
                                                  p2_index(page))
                     ELSE {o} : o \in S2}
    IN  {IF o.st = "ok" THEN MapToInstall(o, page, frame, flags) ELSE o :
            o \in S1}

\* map handing map_to the allocator as it was before the data frame was
\* taken
map_AllocatorNotAdvanced(c, m, a, page, flags) ==
    LET r == allocate_frame(c, a) IN
    IF ~r.frame.some THEN {Out("panic", "out of memory", m, r.alloc, 0)}
    ELSE map_to(c, m, a, page, r.frame.v, flags)

\* map returning quietly when the allocator has no frame
map_ReturnOnNone(c, m, a, page, flags) ==
    LET r == allocate_frame(c, a) IN
    IF ~r.frame.some THEN {Out("ok", "", m, r.alloc, 0)}
    ELSE map_to(c, m, r.alloc, page, r.frame.v, flags)

\* allocator.allocate_frame().expect("out of memory"), then map_to
map(c, m, a, page, flags) ==
    LET r == allocate_frame(c, a) IN
    IF ~r.frame.some THEN {Out("panic", "out of memory", m, r.alloc, 0)}
    ELSE map_to(c, m, r.alloc, page, r.frame.v, flags)

\* a physical address below 2^31 as an address digit string
AddressDigits(n) ==
    <<0, 0,
      (n \div (PAGE_SIZE * ENTRY_COUNT * ENTRY_COUNT)) % ENTRY_COUNT,
      (n \div (PAGE_SIZE * ENTRY_COUNT)) % ENTRY_COUNT,
      (n \div PAGE_SIZE) % ENTRY_COUNT,
      n % PAGE_SIZE>>

\* Page::containing_address(frame.start_address())
IdentityPage(frame) ==
    Page_containing_address(AddressDigits(Frame_start_address(frame)))

identity_map(c, m, a, frame, flags) ==
    IF ~Page_canonical(AddressDigits(Frame_start_address(frame)))
    THEN {Out("panic", "invalid address", m, a, 0)}
    ELSE map_to(c, m, a, IdentityPage(frame), frame, flags)

\* unmap clearing whatever entry maps the page when there is no level-1
\* table, instead of stopping
unmap_ClearsHuge(c, m, a, page) ==
    LET t == translate(m, Page_start_address(page))
        p1 == P1Table(m, page)
        p3 == Table_next_table(m, P4, p4_index(page))
    IN  IF t.kind = "fault" THEN Out("fault", "fault", m, a, 0)
        ELSE IF t.kind = "panic" THEN Out("panic", "translate", m, a, 0)
        ELSE IF t.kind # "some" THEN Out("panic", "not mapped", m, a, 0)
        ELSE IF ~p1.some
        THEN Out("ok", "",
                 [m EXCEPT ![p3.v][p3_index(page)] = Entry_set_unused(@)],
                 a, p3.v)
        ELSE IF ~Entry_pointed_frame(m[p1.v][p1_index(page)]).some
        THEN Out("panic", "unwrap", m, a, 0)
        ELSE Out("ok", "",
                 [m EXCEPT ![p1.v][p1_index(page)] = Entry_set_unused(@)],
                 a, p1.v)

unmap(c, m, a, page) ==
    LET t == translate(m, Page_start_address(page))
        p1 == P1Table(m, page)
    IN  IF t.kind = "fault" THEN Out("fault", "fault", m, a, 0)
        ELSE IF t.kind = "panic" THEN Out("panic", "translate", m, a, 0)
        ELSE IF t.kind # "some" THEN Out("panic", "not mapped", m, a, 0)
        ELSE IF ~p1.some THEN Out("panic", "huge page", m, a, 0)
        ELSE IF ~Entry_pointed_frame(m[p1.v][p1_index(page)]).some
        THEN Out("panic", "unwrap", m, a, 0)
        ELSE Out("ok", "",
                 [m EXCEPT ![p1.v][p1_index(page)] = Entry_set_unused(@)],
                 a, p1.v)

(***************************************************************************)
(* Inputs of the paging specification.                                     *)
(***************************************************************************)
Upper == 65535

Pages ==
    {<<0, 0, 1, 0, 0>>,
     <<0, 0, 1, 0, 1>>,
     <<0, 0, 0, 1, 0>>,
     <<0, 1, 0, 0, 0>>,
     <<0, 0, RecursiveSlot, 0, 1>>,
     <<Upper, RecursiveSlot, RecursiveSlot, RecursiveSlot, RecursiveSlot>>,
     <<Upper, RecursiveSlot, RecursiveSlot, RecursiveSlot, 1>>,
     <<Upper, RecursiveSlot, RecursiveSlot, 0, RecursiveSlot>>}

Offsets == {0, 1, PAGE_SIZE - 1}

\* one address that is not canonical
BadAddress == <<0, RecursiveSlot, 0, 0, 0, 0>>

\* the pages translate is followed on: those mapped and unmapped, and one
\* with a non-zero level-2 index
TranslatedPages == Pages \cup {<<0, 0, RecursiveSlot, 1, 1>>}

Addresses ==
    {p \o <<k>> : p \in TranslatedPages, k \in Offsets} \cup {BadAddress}

\* the addresses the Translate step looks up (test_paging looks up the
\* page it maps and boot-mapped addresses)
LookedUp ==
    {<<0, 0, 1, 0, 0, 0>>, <<0, 0, 1, 0, 1, 1>>, <<0, 0, 0, 1, 0, 0>>,
     <<0, 0, RecursiveSlot, 1, 1, PAGE_SIZE - 1>>, BadAddress}

FlagSets == {{}, {WRITEABLE, HUGE_PAGE, NO_EXECUTE}}

\* the caller's frames whose identity page lies in the slots followed
IdentityFrames ==
    {f \in DataFrames : \A i \in 2..5 : IdentityPage(f)[i] \in Slots}

NoPage == <<0, 0, 0, 0, 0>>

\* the step just taken: the operation, its arguments, what translate said
\* of the page before it (was), its result and the failed check (why)
Last(op, page, frame, flags, was, res, why) ==
    [op |-> op, page |-> page, frame |-> frame, flags |-> flags,
     was |-> was, res |-> res, why |-> why]

StatusOf(st) == IF st = "ok" THEN "running" ELSE st

\* an unmap that leaves the translation cache alone
tlb_flush_Nothing(t, page) == t

\* lines 201-203: ::x86::tlb::flush(page.start_address()) drops the cached
\* translation of that one page
tlb_flush(t, page) == {c \in t : c.page # page}

Was(page) == translate(mem, Page_start_address(page)).kind

Apply(o, op, page, frame, flags) ==
    /\ mem' = o.mem
    /\ alloc' = o.alloc
    /\ status' = StatusOf(o.st)
    /\ last' = Last(op, page, frame, flags, Was(page), Res(o.st, 0), o.why)
    /\ ops' = ops + 1
    /\ tlb' = IF op = "unmap" /\ o.st = "ok" THEN tlb_flush(tlb, page)
              ELSE tlb
    /\ UNCHANGED <<entry, boot, cfg, handed, dry>>

MapTo ==
    /\ status = "running" /\ ops < MaxOps
    /\ \E page \in Pages, frame \in DataFrames, flags \in FlagSets :
         \E o \in map_to(cfg, mem, alloc, page, frame, flags) :
            Apply(o, "map_to", page, frame, flags)

Map ==
    /\ status = "running" /\ ops < MaxOps
    /\ \E page \in Pages, flags \in FlagSets :
         \E o \in map(cfg, mem, alloc, page, flags) :
            Apply(o, "map", page,
                  LET r == allocate_frame(cfg, alloc) IN
                  IF r.frame.some THEN r.frame.v ELSE 0,
                  flags)

IdentityMap ==
    /\ status = "running" /\ ops < MaxOps
    /\ \E frame \in IdentityFrames, flags \in FlagSets :
         \E o \in identity_map(cfg, mem, alloc, frame, flags) :
            Apply(o, "identity_map", IdentityPage(frame), frame, flags)

Unmap ==
    /\ status = "running" /\ ops < MaxOps
    /\ \E page \in Pages :
         Apply(unmap(cfg, mem, alloc, page), "unmap", page, 0, {})

\* a translate that descends with next_table_create, as map_to does
Translate_Creating ==
    /\ status = "running"
    /\ \E address \in LookedUp :
         LET r == translate(mem, address)
             page == Page_containing_address(address)
             S3 == IF r.kind \in {"panic", "fault"}
                   THEN {Out("ok", "", mem, alloc, 0)}
                   ELSE Table_next_table_create(cfg, mem, alloc, P4,
                                                p4_index(page))
             S2 == UNION {IF o.st = "ok" /\ o.tbl # 0
                          THEN Table_next_table_create(cfg, o.mem, o.alloc,
                                                       o.tbl, p3_index(page))
                          ELSE {o} : o \in S3}
         IN  \E o \in S2 :
               /\ last' = Last("translate", address, 0, {}, "none", r, "")
               /\ status' = IF r.kind \in {"panic", "fault"} THEN r.kind
                            ELSE "running"
               /\ mem' = o.mem
               /\ alloc' = o.alloc
               /\ UNCHANGED <<ops, entry, boot, cfg, handed, dry, tlb>>

Translate ==
    /\ status = "running"
    /\ \E address \in LookedUp :
         LET r == translate(mem, address) IN
         /\ last' = Last("translate", address, 0, {}, "none", r, "")
         /\ status' = IF r.kind \in {"panic", "fault"} THEN r.kind
                      ELSE "running"
         /\ UNCHANGED <<mem, alloc, ops, entry, boot, cfg, handed, dry, tlb>>

AllocateFrame ==
    /\ status = "running" /\ ops < MaxOps
    /\ LET r == allocate_frame(cfg, alloc) IN
       /\ alloc' = r.alloc
       /\ last' = Last("allocate_frame", NoPage, 0, {}, "none",
                       IF r.frame.some THEN Res("some", r.frame.v)
                       ELSE Res("none", 0), "")
       /\ ops' = ops + 1
       /\ UNCHANGED <<mem, status, entry, boot, cfg, handed, dry, tlb>>

DeallocateFrame ==
    /\ status = "running"
    /\ \E frame \in {9} :
       /\ alloc' = deallocate_frame(cfg, alloc, frame)
       /\ last' = Last("deallocate_frame", NoPage, frame, {}, "none",
                       Res("none", 0), "")
       /\ UNCHANGED <<mem, status, ops, entry, boot, cfg, handed, dry, tlb>>

Init ==
    /\ boot = PagingBoot
    /\ cfg = rust_main_cfg(boot)
    /\ mem \in {BootMem(stale) : stale \in StaleTables}
    /\ alloc = AreaFrameAllocator_new(cfg)
    /\ handed = <<>>
    /\ dry = 0
    /\ status = "running"
    /\ last = Last("new", NoPage, 0, {}, "none", Res("none", 0), "")
    /\ ops = 0
    /\ entry = {}
    /\ tlb = {}

Next ==
    \/ MapTo
    \/ Map
    \/ IdentityMap
    \/ Unmap
    \/ Translate
    \/ AllocateFrame
    \/ DeallocateFrame

Spec == Init /\ [][Next]_vars

(***************************************************************************)
(* Predicates on the tables used by the properties.                        *)
(***************************************************************************)
\* the page's level-1 table exists and its entry for the page is present
Level1Present(m, page) ==
    LET p1 == P1Table(m, page) IN
    p1.some /\ PRESENT \in Entry_flags(m[p1.v][p1_index(page)])

\* the page's level-1 table exists and its entry for the page is not zero
SlotInUse(m, page) ==
    LET p1 == P1Table(m, page) IN
    p1.some /\ ~Entry_is_unused(m[p1.v][p1_index(page)])

IsHuge(e) == PRESENT \in Entry_flags(e) /\ HUGE_PAGE \in Entry_flags(e)

\* the level-3 entry of the page, when its level-3 table exists
P3Entry(m, page) ==
    LET p3 == Table_next_table(m, P4, p4_index(page)) IN
    IF p3.some THEN Some(m[p3.v][p3_index(page)]) ELSE None

\* the level-2 entry of the page, when its level-2 table exists
P2Entry(m, page) ==
    LET p3 == Table_next_table(m, P4, p4_index(page))
        p2 == IF p3.some THEN Table_next_table(m, p3.v, p3_index(page))
              ELSE None
    IN  IF p2.some THEN Some(m[p2.v][p2_index(page)]) ELSE None

HugeCovered(m, page) ==
    \/ P3Entry(m, page).some /\ IsHuge(P3Entry(m, page).v)
    \/ P2Entry(m, page).some /\ IsHuge(P2Entry(m, page).v)

(***************************************************************************)
(* Properties of the paging specification.                                 *)
(***************************************************************************)

\* C1: after map_to(page, frame, flags, allocator) completes, whatever the
\* flags, translate(page.start_address() + k) returns
\* frame.start_address() + k for the offsets k followed.
C1_MapToThenTranslate ==
    (last.op = "map_to" /\ last.res.kind = "ok") =>
        \A k \in Offsets :
            translate(mem, last.page \o <<k>>) =
                Res("some", Frame_start_address(last.frame) + k)

\* a map_to with the empty flag set has completed on a page that had no
\* translation, creating tables on the way
C1_Witness ==
    /\ last.op = "map_to" /\ last.res.kind = "ok"
    /\ last.flags = {} /\ last.was = "none"
    /\ alloc # AreaFrameAllocator_new(cfg)
    /\ translate(mem, last.page \o <<PAGE_SIZE - 1>>) =
           Res("some", Frame_start_address(last.frame) + PAGE_SIZE - 1)

\* C2 (as claimed): map_to on a page without translation, immediately
\* followed by unmap of the same page, succeeds and leaves translate of the
\* page's start address without a value.
C2_RoundTrip ==
    [][(/\ last.op = "map_to" /\ last.res.kind = "ok" /\ last.was = "none"
        /\ last'.op = "unmap" /\ last'.page = last.page)
       => (/\ last'.res.kind = "ok"
           /\ translate(mem', Page_start_address(last.page)).kind = "none")]_vars

\* C3 (as claimed): while the tables are reachable, every canonical address
\* whose page has no present level-1 entry and lies under no huge-page entry
\* translates to no value.  Stated for the addresses outside the recursive
\* slot's range, which is where a neighbouring page's tables matter.
C3_AbsenceIsNone ==
    RecursiveMapped(mem) =>
        \A a \in Addresses :
            (/\ Page_canonical(a)
             /\ p4_index(Page_containing_address(a)) # RecursiveSlot
             /\ ~Level1Present(mem, Page_containing_address(a))
             /\ ~HugeCovered(mem, Page_containing_address(a)))
            => translate(mem, a).kind = "none"

\* C4: map_to, map and identity_map on a page whose level-1 entry is in use
\* stop with a panic and leave every table as it was.
C4_DoubleMapPanics ==
    [][(/\ last'.op \in {"map_to", "map", "identity_map"}
        /\ last' # last
        /\ RecursiveMapped(mem)
        /\ SlotInUse(mem, last'.page))
       => (status' = "panic" /\ mem' = mem)]_vars

\* a second map_to on a page mapped by an earlier operation has panicked
C4_Witness ==
    /\ last.op = "map_to" /\ status = "panic" /\ last.why = "in use"
    /\ ops >= 2
    /\ Level1Present(mem, last.page)

\* C8: while the tables are reachable, an address whose level-3 entry is
\* present with HUGE_PAGE set and names frame F translates to
\* (F + p2_index * 512 + p1_index) * 4096 + offset when F is a multiple of
\* 512 * 512, and translate panics when it is not.
C8_Huge1GiB ==
    RecursiveMapped(mem) =>
        \A a \in Addresses :
            LET page == Page_containing_address(a)
                e == P3Entry(mem, page)
            IN  (Page_canonical(a) /\ e.some /\ IsHuge(e.v)) =>
                LET F == Entry_pointed_frame(e.v).v IN
                IF F % (ENTRY_COUNT * ENTRY_COUNT) = 0
                THEN translate(mem, a) =
                        Res("some",
                            (F + p2_index(page) * ENTRY_COUNT + p1_index(page))
                                * PAGE_SIZE + PageOffset(a))
                ELSE translate(mem, a).kind = "panic"

\* translate has resolved an address with a non-zero level-2 index under a
\* 1 GiB entry that names an aligned, non-zero frame
C8_Witness ==
    /\ last.op = "translate" /\ last.res.kind = "some"
    /\ LET page == Page_containing_address(last.page)
           e == P3Entry(mem, page)
       IN  /\ p2_index(page) # 0
           /\ e.some /\ IsHuge(e.v)
           /\ Entry_pointed_frame(e.v).v = ENTRY_COUNT * ENTRY_COUNT

\* C9: unmap of a page that translate does not resolve, or of a page under
\* a huge-page entry, stops with a panic and changes no table entry.
C9_UnmapUnmappedPanics ==
    [][(/\ last'.op = "unmap" /\ last' # last
        /\ RecursiveMapped(mem)
        /\ \/ translate(mem, Page_start_address(last'.page)).kind = "none"
           \/ HugeCovered(mem, last'.page))
       => (status' = "panic" /\ mem' = mem)]_vars

\* unmap has panicked on a page under a boot 2 MiB page
C9_Witness ==
    /\ last.op = "unmap" /\ status = "panic" /\ last.why = "huge page"
    /\ HugeCovered(mem, last.page)

\* the frames the allocator can still hand out
RECURSIVE FramesLeft(_, _)
FramesLeft(c, a) ==
    LET r == allocate_frame(c, a) IN
    IF r.frame.some THEN 1 + FramesLeft(c, r.alloc) ELSE 0

\* the intermediate tables missing on the page's path
MissingTables(m, page) ==
    LET p3 == Table_next_table(m, P4, p4_index(page))
        p2 == IF p3.some THEN Table_next_table(m, p3.v, p3_index(page))
              ELSE None
        p1 == IF p2.some THEN Table_next_table(m, p2.v, p2_index(page))
              ELSE None
    IN  IF ~p3.some THEN 3 ELSE IF ~p2.some THEN 2 ELSE IF ~p1.some THEN 1
        ELSE 0

\* C10: map panics when the allocator cannot supply the data frame, leaving
\* the tables as they were, and when it cannot supply a missing
\* intermediate table; in neither case is the page mapped.
C10_MapOutOfMemory ==
    [][(last'.op = "map" /\ last' # last /\ RecursiveMapped(mem)) =>
        /\ FramesLeft(cfg, alloc) = 0 => (status' = "panic" /\ mem' = mem)
        /\ FramesLeft(cfg, alloc) < 1 + MissingTables(mem, last'.page)
              => /\ status' = "panic"
                 /\ Level1Present(mem', last'.page)
                        => Level1Present(mem, last'.page)]_vars

\* map has panicked for want of a frame for an intermediate table
C10_Witness ==
    /\ last.op = "map" /\ status = "panic"
    /\ last.why = "no frames available"

\* map has panicked for want of the data frame
C10_WitnessData ==
    /\ last.op = "map" /\ status = "panic" /\ last.why = "out of memory"

\* C11: a translate step changes no table entry and takes no frame from
\* the allocator, and a translate of the address the previous translate
\* looked up returns the same result.
C11_TranslateIsPure ==
    [][last'.op = "translate" =>
        /\ mem' = mem
        /\ alloc' = alloc
        /\ (last.op = "translate" /\ last.page = last'.page)
               => last'.res = last.res]_vars

\* translate has resolved an address of a page mapped by an earlier
\* operation that took frames for its tables
C11_Witness ==
    /\ last.op = "translate" /\ last.res.kind = "some"
    /\ ops >= 1
    /\ alloc # AreaFrameAllocator_new(cfg)
    /\ Level1Present(mem, Page_containing_address(last.page))

\* C13 (as claimed): while the tables are reachable, an address outside the
\* recursive range whose level-2 entry is present with HUGE_PAGE set and
\* names frame F translates to (F + p1_index) * 4096 + offset when F is a
\* multiple of 512, and translate panics when it is not; when the level-2
\* entry is present without HUGE_PAGE the address is resolved through the
\* level-1 table alone, so it has no translation when its level-1 entry is
\* absent.
C13_Huge2MiB ==
    RecursiveMapped(mem) =>
        \A a \in Addresses :
            LET page == Page_containing_address(a)
                e == P2Entry(mem, page)
            IN  (/\ Page_canonical(a) /\ p4_index(page) # RecursiveSlot
                 /\ e.some /\ PRESENT \in Entry_flags(e.v)) =>
                LET F == Entry_pointed_frame(e.v).v IN
                IF HUGE_PAGE \in Entry_flags(e.v)
                THEN IF F % ENTRY_COUNT = 0
                     THEN translate(mem, a) =
                             Res("some", (F + p1_index(page)) * PAGE_SIZE
                                             + PageOffset(a))
                     ELSE translate(mem, a).kind = "panic"
                ELSE IF Level1Present(mem, page)
                THEN translate(mem, a).kind = "some"
                ELSE translate(mem, a).kind = "none"

\* C14 (as claimed): in every state reached by map_to, map, identity_map
\* and unmap, the recursive slot of the top-level table is present and
\* points to the top-level table's own frame.
C14_RecursiveSlotKept ==
    status \in {"running", "panic"} => RecursiveMapped(mem)

\* C15 (as claimed): a successful unmap(page) leaves the page's level-1
\* entry unused and every other entry of every table as it was, the three
\* tables on the page's path stay present, every other page that had a
\* translation keeps it, and the allocator is as it was.
C15_UnmapClearsOneEntry ==
    [][(/\ last'.op = "unmap" /\ last'.res.kind = "ok" /\ last' # last
        /\ RecursiveMapped(mem))
       => LET page == last'.page
              p1 == P1Table(mem, page)
          IN  /\ p1.some
              /\ Entry_is_unused(mem'[p1.v][p1_index(page)])
              /\ \A f \in FrameUniverse, s \in Slots :
                    (f # p1.v \/ s # p1_index(page)) => mem'[f][s] = mem[f][s]
              /\ P1Table(mem', page) = p1
              /\ \A q \in TranslatedPages \ {page} :
                    translate(mem, Page_start_address(q)).kind = "some" =>
                        translate(mem', Page_start_address(q)) =
                            translate(mem, Page_start_address(q))
              /\ alloc' = alloc]_vars

\* the entries of table t that are not unused
UsedSlots(m, t) == {s \in Slots : ~Entry_is_unused(m[t][s])}

\* the entry that links a table created by the step into its parent, and
\* the table itself after the step
CreatedTable(m, parent, idx) ==
    LET e == m[parent][idx] IN
    /\ Entry_flags(e) = {PRESENT, WRITEABLE}
    /\ Entry_pointed_frame(e).v \in FrameUniverse
    /\ Cardinality(UsedSlots(m, Entry_pointed_frame(e).v)) = 1

\* C19: a map_to that completes takes from the allocator one frame for each
\* of the level-3, level-2 and level-1 tables missing on the page's path
\* and none when all are there; each table it creates is linked into its
\* parent with PRESENT | WRITEABLE and holds, after the call, exactly one
\* used entry (the link to the next table, or the page's level-1 entry).
C19_LazyTableCreation ==
    [][(/\ last'.op = "map_to" /\ last'.res.kind = "ok" /\ last' # last
        /\ RecursiveMapped(mem))
       => LET page == last'.page
              p3 == Table_next_table(mem, P4, p4_index(page))
              p2 == IF p3.some
                    THEN Table_next_table(mem, p3.v, p3_index(page)) ELSE None
              p1 == IF p2.some
                    THEN Table_next_table(mem, p2.v, p2_index(page)) ELSE None
              n3 == Table_next_table(mem', P4, p4_index(page))
              n2 == Table_next_table(mem', n3.v, p3_index(page))
              n1 == Table_next_table(mem', n2.v, p2_index(page))
          IN  /\ FramesLeft(cfg, alloc) - FramesLeft(cfg, alloc')
                    = MissingTables(mem, page)
              /\ n3.some /\ n2.some /\ n1.some
              /\ p3.some => n3 = p3
              /\ p2.some => n2 = p2
              /\ p1.some => n1 = p1
              /\ ~p3.some => CreatedTable(mem', P4, p4_index(page))
              /\ ~p2.some => CreatedTable(mem', n3.v, p3_index(page))
              /\ ~p1.some =>
                    /\ CreatedTable(mem', n2.v, p2_index(page))
                    /\ UsedSlots(mem', n1.v) = {p1_index(page)}]_vars

\* map_to has completed on a page none of whose three tables existed,
\* taking the allocator's three frames
C19_Witness ==
    /\ last.op = "map_to" /\ last.res.kind = "ok" /\ ops = 1
    /\ last.page = <<0, 1, 0, 0, 0>>
    /\ FramesLeft(cfg, AreaFrameAllocator_new(cfg))
           - FramesLeft(cfg, alloc) = 3
    /\ UsedSlots(mem, P1Table(mem, last.page).v) = {0}

(***************************************************************************)
(* Paging with the processor's translation cache.  An access to a page is  *)
(* served from the cache when it holds the page; otherwise the processor   *)
(* walks the tables from the top-level table and caches what it finds, or  *)
(* faults.  tlb is the set of cached [page, frame] pairs.                  *)
(***************************************************************************)
TlbPages == {<<0, 0, 1, 0, 0>>, <<0, 0, 1, 0, 1>>}

\* the processor's walk: HUGE_PAGE ends it at level 3 or level 2
HardwareWalk(m, page) ==
    LET e4 == m[P4][p4_index(page)] IN
    IF PRESENT \notin e4 THEN None
    ELSE
    LET e3 == m[Entry_pointed_frame(e4).v][p3_index(page)] IN
    IF PRESENT \notin e3 THEN None
    ELSE IF HUGE_PAGE \in e3
    THEN Some(Entry_pointed_frame(e3).v + p2_index(page) * ENTRY_COUNT
                  + p1_index(page))
    ELSE
    LET e2 == m[Entry_pointed_frame(e3).v][p2_index(page)] IN
    IF PRESENT \notin e2 THEN None
    ELSE IF HUGE_PAGE \in e2
    THEN Some(Entry_pointed_frame(e2).v + p1_index(page))
    ELSE Entry_pointed_frame(m[Entry_pointed_frame(e2).v][p1_index(page)])

Cached(t, page) == {c \in t : c.page = page}

\* a read through a virtual address of the page (test_paging reads the
\* page it has mapped)
Access ==
    /\ status = "running"
    /\ \E page \in TlbPages :
         LET w == HardwareWalk(mem, page) IN
         IF Cached(tlb, page) # {}
         THEN /\ last' = Last("access", page, 0, {}, "none",
                              Res("hit", 0), "")
              /\ UNCHANGED <<mem, alloc, status, ops, entry, boot, cfg,
                             handed, dry, tlb>>
         ELSE IF w.some
         THEN /\ tlb' = tlb \cup {[page |-> page, frame |-> w.v]}
              /\ last' = Last("access", page, w.v, {}, "none",
                              Res("miss", 0), "")
              /\ UNCHANGED <<mem, alloc, status, ops, entry, boot, cfg,
                             handed, dry>>
         ELSE /\ status' = "fault"
              /\ last' = Last("access", page, 0, {}, "none",
                              Res("fault", 0), "page fault")
              /\ UNCHANGED <<mem, alloc, ops, entry, boot, cfg, handed, dry,
                             tlb>>

TlbMapTo ==
    /\ status = "running" /\ ops < MaxOps + 1
    /\ \E page \in TlbPages, frame \in DataFrames :
         \E o \in map_to(cfg, mem, alloc, page, frame, {}) :
            Apply(o, "map_to", page, frame, {})

TlbUnmap ==
    /\ status = "running" /\ ops < MaxOps + 1
    /\ \E page \in TlbPages :
         Apply(unmap(cfg, mem, alloc, page), "unmap", page, 0, {})

NextTlb == TlbMapTo \/ TlbUnmap \/ Access

SpecTlb == Init /\ [][NextTlb]_vars

\* C16: a successful unmap(page) leaves no cached translation of the page
\* behind, in the same step in which it clears the level-1 entry; hence in
\* every state between operations every page with a cached translation
\* has its level-1 entry present.
C16_TlbCoherentOnUnmap ==
    /\ (last.op = "unmap" /\ last.res.kind = "ok") =>
          /\ Cached(tlb, last.page) = {}
          /\ ~SlotInUse(mem, last.page)
    /\ \A c \in tlb : Level1Present(mem, c.page)

\* unmap has succeeded on a page that had a translation while the
\* translation of another page stays cached
C16_Witness ==
    /\ last.op = "unmap" /\ last.res.kind = "ok" /\ last.was = "some"
    /\ tlb # {}
    /\ Cached(tlb, last.page) = {}

(***************************************************************************)
(* Paging through map and unmap alone, on pages outside the recursive      *)
(* range: every data frame comes from the allocator that supplies the      *)
(* table frames.                                                           *)
(***************************************************************************)
OrdinaryPages == {p \in Pages : p4_index(p) # RecursiveSlot}

OrdinaryMap ==
    /\ status = "running" /\ ops < MaxOps
    /\ \E page \in OrdinaryPages, flags \in FlagSets :
         \E o \in map(cfg, mem, alloc, page, flags) :
            Apply(o, "map", page,
                  LET r == allocate_frame(cfg, alloc) IN
                  IF r.frame.some THEN r.frame.v ELSE 0,
                  flags)

OrdinaryUnmap ==
    /\ status = "running" /\ ops < MaxOps
    /\ \E page \in OrdinaryPages :
         Apply(unmap(cfg, mem, alloc, page), "unmap", page, 0, {})

NextMapOnly == OrdinaryMap \/ OrdinaryUnmap

SpecMapOnly == Init /\ [][NextMapOnly]_vars

\* the tables one level below the tables of T: the frames their present,
\* non-huge entries name (the recursive slot of the top-level table apart)
ChildTables(m, T) ==
    {Entry_pointed_frame(m[t][s]).v :
        <<t, s>> \in {x \in T \X Slots :
                        /\ x # <<P4, RecursiveSlot>>
                        /\ PRESENT \in Entry_flags(m[x[1]][x[2]])
                        /\ HUGE_PAGE \notin Entry_flags(m[x[1]][x[2]])}}
        \cap FrameUniverse

\* the present entries of the table tree, as <<table frame, slot>>
TreeEntries(m) ==
    LET T3 == ChildTables(m, {P4})
        T2 == ChildTables(m, T3)
        T1 == ChildTables(m, T2)
    IN  {x \in ({P4} \cup T3 \cup T2 \cup T1) \X Slots :
            /\ x # <<P4, RecursiveSlot>>
            /\ PRESENT \in Entry_flags(m[x[1]][x[2]])}

\* the 2 MiB entries of the boot identity mapping
BootIdentityEntries(m) ==
    {x \in {Boot.p2} \X Slots : IsHuge(m[x[1]][x[2]])}

NoSharedFrame(m, E) ==
    \A x, y \in E :
        x # y => Entry_pointed_frame(m[x[1]][x[2]])
                    # Entry_pointed_frame(m[y[1]][y[2]])

\* C17 (as claimed): with every mapping made by map and removed by unmap,
\* no two present entries of the table tree other than the recursive slot
\* name the same frame.
C17_NoSharedFrame ==
    RecursiveMapped(mem) => NoSharedFrame(mem, TreeEntries(mem))

\* C17 (amended): with every mapping made by map on pages outside the
\* recursive range and removed by unmap, no two present entries of the table
\* tree other than the recursive slot and the 2 MiB entries of the boot
\* identity mapping name the same frame.
C17_NoSharedFrameBesideBoot ==
    RecursiveMapped(mem) =>
        NoSharedFrame(mem, TreeEntries(mem) \ BootIdentityEntries(mem))

\* map has created tables and taken frames from both memory areas
C17_Witness ==
    /\ last.op = "map" /\ last.res.kind = "ok"
    /\ alloc.next_free_frame > ENTRY_COUNT
    /\ Level1Present(mem, last.page)
    /\ Cardinality(TreeEntries(mem) \ BootIdentityEntries(mem)) >= 5

(***************************************************************************)
(* The allocator on its own: rust_main builds it from the boot hand-off    *)
(* and calls allocate_frame until it has no frame left.  handed lists the  *)
(* frames returned, in order; dry counts the calls that returned no value  *)
(* (it stops counting at 2).                                               *)
(***************************************************************************)
KernelImages ==
    {{[addr |-> 0, size |-> PAGE_SIZE]},
     {[addr |-> PAGE_SIZE, size |-> PAGE_SIZE + 1]},
     {[addr |-> 2 * PAGE_SIZE, size |-> 16],
      [addr |-> 3 * PAGE_SIZE, size |-> PAGE_SIZE]}}

BootInfos ==
    {[info_address |-> 0, total_size |-> PAGE_SIZE],
     [info_address |-> 2 * PAGE_SIZE + 8, total_size |-> PAGE_SIZE],
     [info_address |-> 4 * PAGE_SIZE + 8, total_size |-> 64]}

\* sorted, non-overlapping lists of one or two frame-aligned areas
AreaLists ==
    LET one == {<<[base_addr |-> b * PAGE_SIZE, length |-> n * PAGE_SIZE]>> :
                   b \in 0..1, n \in 1..MaxAreaFrames}
        two == {<<[base_addr |-> b * PAGE_SIZE, length |-> n * PAGE_SIZE],
                  [base_addr |-> (b + n + g) * PAGE_SIZE,
                   length |-> k * PAGE_SIZE]>> :
                   b \in 0..1, n \in 1..MaxAreaFrames, g \in 0..1, k \in 1..2}
    IN  one \cup two

Boots ==
    {[sections |-> ki, info_address |-> bi.info_address,
      total_size |-> bi.total_size, areas |-> al] :
        ki \in KernelImages, bi \in BootInfos, al \in AreaLists}

InitAlloc ==
    /\ boot \in Boots
    /\ cfg = rust_main_cfg(boot)
    /\ alloc = AreaFrameAllocator_new(cfg)
    /\ handed = <<>>
    /\ dry = 0
    /\ mem = BootMem(ZeroTable)
    /\ status = "running"
    /\ last = Last("new", NoPage, 0, {}, "none", Res("none", 0), "")
    /\ ops = 0
    /\ entry = {}
    /\ tlb = {}

AllocStep ==
    LET r == allocate_frame(cfg, alloc) IN
    /\ alloc' = r.alloc
    /\ handed' = IF r.frame.some THEN Append(handed, r.frame.v) ELSE handed
    /\ dry' = IF r.frame.some \/ dry = 2 THEN dry ELSE dry + 1
    /\ last' = Last("allocate_frame", NoPage, 0, {}, "none",
                    IF r.frame.some THEN Res("some", r.frame.v)
                    ELSE Res("none", 0), "")
    /\ UNCHANGED <<mem, status, ops, entry, boot, cfg, tlb>>

DeallocStep ==
    \E i \in 1..Len(handed) :
        /\ alloc' = deallocate_frame(cfg, alloc, handed[i])
        /\ last' = Last("deallocate_frame", NoPage, handed[i], {}, "none",
                        Res("none", 0), "")
        /\ UNCHANGED <<mem, status, ops, entry, boot, cfg, handed, dry, tlb>>

NextAlloc == AllocStep \/ DeallocStep

SpecAlloc == InitAlloc /\ [][NextAlloc]_vars

\* rust_main's counting loop keeps calling allocate_frame
SpecAllocLoop == InitAlloc /\ [][NextAlloc]_vars /\ WF_vars(AllocStep)

\* the frame lies inside one of the usable areas of the hand-off
InSomeArea(f) ==
    \E i \in 1..Len(boot.areas) :
        /\ Frame_start_address(f) >= boot.areas[i].base_addr
        /\ Frame_start_address(f + 1) <=
               boot.areas[i].base_addr + boot.areas[i].length

\* the frame shares a byte with [lo, hi)
FrameOverlaps(f, lo, hi) ==
    Frame_start_address(f) < hi /\ Frame_start_address(f + 1) > lo

\* the kernel image reaches from its lowest section address to its highest
\* section end, the boot information from its address over its total size
InKernelImage(f) ==
    FrameOverlaps(f, SetMin({sec.addr : sec \in boot.sections}),
                  SetMax({sec.addr + sec.size : sec \in boot.sections}))

InBootInfo(f) ==
    FrameOverlaps(f, boot.info_address, boot.info_address + boot.total_size)

\* C5: every frame allocate_frame has returned lies inside a usable area
\* and overlaps neither the kernel image nor the boot information, and the
\* frames were returned in strictly increasing order.
C5_ExclusionAndOrder ==
    /\ \A i \in 1..Len(handed) :
          InSomeArea(handed[i]) /\ ~InKernelImage(handed[i])
              /\ ~InBootInfo(handed[i])
    /\ \A i, j \in 1..Len(handed) : i < j => handed[i] < handed[j]

\* frames were returned on both sides of an exclusion window
C5_Witness ==
    /\ Len(handed) >= 2
    /\ \E f \in handed[1]..handed[Len(handed)] :
          InKernelImage(f) \/ InBootInfo(f)

\* C6: once allocate_frame has returned no value no further frame is handed
\* out, whatever is deallocated in between, and the counting loop reaches
\* the first such result.
C6_ExhaustionAbsorbing ==
    /\ [][dry > 0 => (handed' = handed /\ (last'.op = "allocate_frame"
                                              => last'.res.kind = "none"))]_vars
    /\ <>(dry > 0)

\* allocate_frame has returned no value twice after handing out frames
C6_Witness ==
    /\ dry = 2 /\ Len(handed) >= 2
    /\ last.op = "allocate_frame" /\ last.res.kind = "none"

\* the frames of the hand-off that lie inside a usable area and overlap
\* neither the kernel image nor the boot information
UsableFrames ==
    {f \in 0..SetMax({AreaLastFrame(boot.areas[i]) :
                          i \in 1..Len(boot.areas)}) :
        InSomeArea(f) /\ ~InKernelImage(f) /\ ~InBootInfo(f)}

\* C18: each allocate_frame call returns the lowest usable, non-excluded
\* frame at or above the cursor and returns no value only when there is
\* none; so the frames handed out are the usable, non-excluded frames in
\* ascending order, each once, and all of them once a call has returned no
\* value.
C18_NothingSkipped ==
    /\ [][last'.op = "allocate_frame" =>
            LET ahead == {f \in UsableFrames : f >= alloc.next_free_frame}
            IN  IF ahead = {} THEN last'.res = Res("none", 0)
                ELSE last'.res = Res("some", SetMin(ahead))]_vars
    /\ [](/\ \A i \in 1..Len(handed) :
                /\ handed[i] \in UsableFrames
                /\ Cardinality({g \in UsableFrames : g < handed[i]}) = i - 1
           /\ dry > 0 => Len(handed) = Cardinality(UsableFrames))

\* the allocator has run dry after handing out frames of two areas on both
\* sides of an exclusion window
C18_Witness ==
    /\ dry > 0 /\ Len(handed) >= 3 /\ Len(boot.areas) = 2
    /\ alloc.current_area = 0
    /\ \E f \in handed[1]..handed[Len(handed)] :
          InSomeArea(f) /\ (InKernelImage(f) \/ InBootInfo(f))

(***************************************************************************)
(* Page on its own: containing_address and translate applied to addresses  *)
(* on both sides of the two bounds of the canonical range.  Addresses are  *)
(* compared digit by digit from the most significant digit, which is the   *)
(* order of the numbers they stand for.                                    *)
(***************************************************************************)
PageAddresses ==
    {<<hi, i4, i3, 0, i1, off>> :
        hi \in {0, 1, Upper - 1, Upper},
        i4 \in {0, ENTRY_COUNT \div 2 - 1, ENTRY_COUNT \div 2, ENTRY_COUNT - 1},
        i3 \in {0, ENTRY_COUNT - 1},
        i1 \in {0, ENTRY_COUNT - 1},
        off \in Offsets}

\* the addresses translate is followed on: those the assertion rejects and
\* those whose tables lie in the slots followed
PageTranslated ==
    {a \in PageAddresses :
        Page_canonical(a) => \A i \in 2..5 : a[i] \in Slots}

InitPage ==
    /\ boot = PagingBoot
    /\ cfg = rust_main_cfg(boot)
    /\ mem = BootMem(ZeroTable)
    /\ alloc = AreaFrameAllocator_new(cfg)
    /\ handed = <<>>
    /\ dry = 0
    /\ status = "running"
    /\ last = Last("new", NoPage, 0, {}, "none", Res("none", 0), "")
    /\ ops = 0
    /\ entry = {}
    /\ tlb = {}

\* Page::containing_address(address): the assertion, then the page
ContainingAddress ==
    /\ status = "running"
    /\ \E address \in PageAddresses :
         IF Page_canonical(address)
         THEN /\ last' = Last("containing_address", address, 0, {}, "none",
                              Res("ok", Page_containing_address(address)), "")
              /\ UNCHANGED <<mem, alloc, status, ops, entry, boot, cfg,
                             handed, dry, tlb>>
         ELSE /\ last' = Last("containing_address", address, 0, {}, "none",
                              Res("panic", NoPage), "invalid address")
              /\ status' = "panic"
              /\ UNCHANGED <<mem, alloc, ops, entry, boot, cfg, handed, dry,
                             tlb>>

PageTranslate ==
    /\ status = "running"
    /\ \E address \in PageTranslated :
         LET r == translate(mem, address) IN
         /\ last' = Last("translate", address, 0, {}, "none", r, "")
         /\ status' = IF r.kind \in {"panic", "fault"} THEN r.kind
                      ELSE "running"
         /\ UNCHANGED <<mem, alloc, ops, entry, boot, cfg, handed, dry, tlb>>

NextPage == ContainingAddress \/ PageTranslate

SpecPage == InitPage /\ [][NextPage]_vars

\* a < b as numbers
AddressLess(a, b) ==
    \E i \in 1..Len(a) : a[i] < b[i] /\ \A j \in 1..(i - 1) : a[j] = b[j]

\* the start address of the page plus 4096 (the top digit is left to grow
\* past 16 bits, as the sum of the numbers does)
EndOfPage(page) ==
    IF page[5] < ENTRY_COUNT - 1 THEN <<page[1], page[2], page[3], page[4],
                                        page[5] + 1, 0>>
    ELSE IF page[4] < ENTRY_COUNT - 1 THEN <<page[1], page[2], page[3],
                                             page[4] + 1, 0, 0>>
    ELSE IF page[3] < ENTRY_COUNT - 1 THEN <<page[1], page[2], page[3] + 1,
                                             0, 0, 0>>
    ELSE IF page[2] < ENTRY_COUNT - 1 THEN <<page[1], page[2] + 1, 0, 0, 0, 0>>
    ELSE <<page[1] + 1, 0, 0, 0, 0, 0>>

\* below 0x0000_8000_0000_0000 or at or above 0xffff_8000_0000_0000
InCanonicalRange(a) ==
    \/ AddressLess(a, <<0, ENTRY_COUNT \div 2, 0, 0, 0, 0>>)
    \/ ~AddressLess(a, <<Upper, ENTRY_COUNT \div 2, 0, 0, 0, 0>>)

\* C12: for an address a in the canonical range, p = containing_address(a)
\* satisfies p.start_address() <= a < p.start_address() + 4096; for an
\* address outside it, containing_address and translate stop with a panic.
C12_PageContainsAddress ==
    /\ last.op = "containing_address" =>
          IF InCanonicalRange(last.page)
          THEN /\ last.res.kind = "ok"
               /\ ~AddressLess(last.page, Page_start_address(last.res.v))
               /\ AddressLess(last.page, EndOfPage(last.res.v))
          ELSE last.res.kind = "panic" /\ status = "panic"
    /\ (last.op = "translate" /\ ~InCanonicalRange(last.page)) =>
          last.res.kind = "panic" /\ status = "panic"

\* containing_address was given the last byte of the address space
C12_Witness ==
    /\ last.op = "containing_address" /\ last.res.kind = "ok"
    /\ last.page = <<Upper, ENTRY_COUNT - 1, ENTRY_COUNT - 1, 0,
                     ENTRY_COUNT - 1, PAGE_SIZE - 1>>
    /\ last.res.v = <<Upper, ENTRY_COUNT - 1, ENTRY_COUNT - 1, 0,
                      ENTRY_COUNT - 1>>

(***************************************************************************)
(* One entry on its own: set and set_unused applied to a slot that starts  *)
(* unused.  Every frame followed has its address below 2^31, inside the    *)
(* address bits, so the assertion of set holds for all of them.            *)
(***************************************************************************)
EntryFrames == {0, 9, ENTRY_COUNT, ENTRY_COUNT * ENTRY_COUNT}

EntryFlagSets ==
    SUBSET {PRESENT, WRITEABLE, HUGE_PAGE, GLOBAL, NO_EXECUTE}

InitEntry ==
    /\ entry = {}
    /\ boot = PagingBoot
    /\ cfg = rust_main_cfg(boot)
    /\ alloc = AreaFrameAllocator_new(cfg)
    /\ handed = <<>>
    /\ dry = 0
    /\ mem = BootMem(ZeroTable)
    /\ status = "running"
    /\ last = Last("new", NoPage, 0, {}, "none", Res("none", 0), "")
    /\ ops = 0
    /\ tlb = {}

EntrySet ==
    /\ status = "running"
    /\ \E frame \in EntryFrames, flags \in EntryFlagSets :
         IF Entry_set_assert(frame)
         THEN /\ entry' = Entry_set(entry, frame, flags)
              /\ last' = Last("set", NoPage, frame, flags, "none",
                              Res("ok", 0), "")
              /\ UNCHANGED <<mem, alloc, status, ops, boot, cfg, handed, dry, tlb>>
         ELSE /\ status' = "panic"
              /\ last' = Last("set", NoPage, frame, flags, "none",
                              Res("panic", 0), "set")
              /\ UNCHANGED <<mem, alloc, entry, ops, boot, cfg, handed, dry, tlb>>

EntrySetUnused ==
    /\ status = "running"
    /\ entry' = Entry_set_unused(entry)
    /\ last' = Last("set_unused", NoPage, 0, {}, "none", Res("ok", 0), "")
    /\ UNCHANGED <<mem, alloc, status, ops, boot, cfg, handed, dry, tlb>>

NextEntry == EntrySet \/ EntrySetUnused

SpecEntry == InitEntry /\ [][NextEntry]_vars

\* C7 (as claimed): after set(frame, flags), whatever the flags, the entry's
\* flags contain PRESENT, pointed_frame returns the frame and the entry is
\* not unused.
C7_SetForcesPresent ==
    (last.op = "set" /\ last.res.kind = "ok") =>
        /\ PRESENT \in Entry_flags(entry)
        /\ Entry_pointed_frame(entry) = Some(last.frame)
        /\ ~Entry_is_unused(entry)

\* C7 (amended): after set(frame, flags) the entry's flags are exactly the
\* flags passed; when PRESENT is among them pointed_frame returns the frame
\* and the entry is not unused, and when it is not pointed_frame returns no
\* value.
C7_SetStoresFlagsAsGiven ==
    (last.op = "set" /\ last.res.kind = "ok") =>
        /\ Entry_flags(entry) = last.flags
        /\ PRESENT \in last.flags =>
              /\ Entry_pointed_frame(entry) = Some(last.frame)
              /\ ~Entry_is_unused(entry)
        /\ PRESENT \notin last.flags => Entry_pointed_frame(entry) = None

\* set was given a non-zero frame with PRESENT and NO_EXECUTE among the flags
C7_Witness ==
    /\ last.op = "set" /\ last.res.kind = "ok"
    /\ last.frame = ENTRY_COUNT * ENTRY_COUNT
    /\ {PRESENT, NO_EXECUTE} \subseteq last.flags
    /\ Entry_pointed_frame(entry) = Some(last.frame)

====
